---- MODULE Spec2Model ----
(***************************************************************************)
(* Model of the shell-style word tokenizer ShellSplitEx and of the        *)
(* line-oriented ParseBootConfig built on it (src/main.go).                *)
(*                                                                         *)
(* Text is a sequence of bytes (0..255).  Offsets are the 0-based byte     *)
(* offsets of the Go code: the byte at offset i of bb is bb[i+1].          *)
(***************************************************************************)
EXTENDS Integers, Sequences, FiniteSets, TLC

VARIABLES
    b,        \* ShellSplitEx: the input bytes []byte(s)
    splitFn,  \* ShellSplitEx: the separator predicate (by name)
    idx,      \* ShellSplitEx: next rune index
    start,    \* ShellSplitEx: start offset of the field being scanned
    ss,       \* ShellSplitEx: fields collected so far
    pc,       \* ShellSplitEx: "loop" | "done" | "idle"
    res,      \* ShellSplitEx: the returned ([]string, error)
    round,    \* round-trip driver: 1 = first call, 2 = call on the joined fields
    first,    \* round-trip driver: the input and the result of the first call
    input,    \* ParseBootConfig: the input text
    off,      \* ParseBootConfig: bytes of input the scanner has consumed
    line,     \* ParseBootConfig: the line of the current iteration
    cmds,     \* ParseBootConfig: entries collected so far
    cpc,      \* ParseBootConfig: "scan" | "done" | "idle"
    cres      \* ParseBootConfig: the returned ([]string, error)

tokVars == <<b, splitFn, idx, start, ss, pc, res>>
rtVars  == <<round, first>>
cfgVars == <<input, off, line, cmds, cpc, cres>>
vars    == <<b, splitFn, idx, start, ss, pc, res, round, first,
             input, off, line, cmds, cpc, cres>>

----------------------------------------------------------------------------
(* Bounds of the model *)

MaxLen == 5
MaxCfgLen == 6

----------------------------------------------------------------------------
(* Runes and bytes the code names *)

RuneError == 65533
DoubleQuote == 34
SingleQuote == 39
Backslash == 92
Comma == 44
EqualSign == 61
NewLine == 10
CarriageReturn == 13
MaxScanTokenSize == 65536

Max(x, y) == IF x > y THEN x ELSE y

\* b[lo:hi] of Go, 0-based, hi exclusive
Slice(bb, lo, hi) == SubSeq(bb, lo + 1, hi)

----------------------------------------------------------------------------
(* unicode/utf8 *)

\* the continuation-byte range utf8 accepts after the lead byte p0
AcceptLo(p0) == IF p0 = 224 THEN 160 ELSE IF p0 = 240 THEN 144 ELSE 128
AcceptHi(p0) == IF p0 = 237 THEN 159 ELSE IF p0 = 244 THEN 143 ELSE 191

\* the length the lead byte announces; 0 for a byte that cannot lead
LeadSize(p0) ==
    IF p0 < 128 THEN 1
    ELSE IF p0 >= 194 /\ p0 <= 223 THEN 2
    ELSE IF p0 >= 224 /\ p0 <= 239 THEN 3
    ELSE IF p0 >= 240 /\ p0 <= 244 THEN 4
    ELSE 0

IsCont(x) == x >= 128 /\ x <= 191

\* utf8.DecodeRune(p): the first rune of p and its width in bytes;
\* (RuneError, 1) for a malformed sequence, (RuneError, 0) for empty p
DecodeRune(p) ==
    LET n  == Len(p)
        bad == [r |-> RuneError, size |-> 1]
    IN  IF n < 1 THEN [r |-> RuneError, size |-> 0]
        ELSE LET p0 == p[1]
                 sz == LeadSize(p0)
             IN  IF sz = 1 THEN [r |-> p0, size |-> 1]
                 ELSE IF sz = 0 \/ n < sz THEN bad
                 ELSE IF p[2] < AcceptLo(p0) \/ p[2] > AcceptHi(p0) THEN bad
                 ELSE IF sz = 2
                      THEN [r |-> (p0 % 32) * 64 + (p[2] % 64), size |-> 2]
                 ELSE IF ~IsCont(p[3]) THEN bad
                 ELSE IF sz = 3
                      THEN [r |-> (p0 % 16) * 4096 + (p[2] % 64) * 64 + (p[3] % 64),
                            size |-> 3]
                 ELSE IF ~IsCont(p[4]) THEN bad
                 ELSE [r |-> (p0 % 8) * 262144 + (p[2] % 64) * 4096
                               + (p[3] % 64) * 64 + (p[4] % 64),
                       size |-> 4]

\* utf8.DecodeLastRune(p): the last rune of p and its width
DecodeLastRune(p) ==
    LET end == Len(p) IN
    IF end = 0 THEN [r |-> RuneError, size |-> 0]
    ELSE IF p[end] < 128 THEN [r |-> p[end], size |-> 1]
    ELSE LET lim  == Max(0, end - 4)
             \* offsets of the bytes in [lim, end-2] that can start a rune
             cand == {k \in lim .. (end - 2) : ~IsCont(p[k + 1])}
             st   == IF cand = {} THEN Max(lim, 0)
                     ELSE CHOOSE k \in cand : \A m \in cand : m <= k
             d    == DecodeRune(Slice(p, st, end))
         IN  IF st + d.size # end THEN [r |-> RuneError, size |-> 1] ELSE d

----------------------------------------------------------------------------
(* unicode.IsSpace and the separator predicates *)

IsSpace(r) ==
    \/ r \in 9 .. 13
    \/ r \in {32, 133, 160, 5760, 8232, 8233, 8239, 8287, 12288}
    \/ r \in 8192 .. 8202

Preds == {"IsSpace", "IsSpaceOrComma", "IsComma"}

\* splitFn(r)
SplitFn(p, r) ==
    CASE p = "IsSpace"        -> IsSpace(r)
      [] p = "IsSpaceOrComma" -> IsSpace(r) \/ r = Comma
      [] p = "IsComma"        -> r = Comma

\* mutant: the single quote is not taken for a quote
IsQuote_DoubleOnly(r) == r = DoubleQuote

IsQuote(r) == r = DoubleQuote \/ r = SingleQuote

----------------------------------------------------------------------------
(* Errors of ShellSplitEx.  One record shape for all of them:              *)
(*   kind   "nil" | "InvalidEncoding" | "UnterminatedQuote"                *)
(*   op     the helper that raised it: "skip" | "find" | "quote"           *)
(*   ch, index, prefix   the arguments of the invalid-encoding message     *)
(*   q      the quote rune of the no-end-matching-quote message            *)
(*   wrapped, wstart, wprefix   the wrapper findSplitCh adds               *)
(***************************************************************************)

NoErr ==
    [kind |-> "nil", op |-> "", ch |-> -1, index |-> -1, prefix |-> <<>>,
     q |-> -1, wrapped |-> FALSE, wstart |-> -1, wprefix |-> <<>>]

InvalidEncodingErr(o, bb, i) ==
    [NoErr EXCEPT !.kind = "InvalidEncoding", !.op = o, !.ch = bb[i + 1],
                  !.index = i, !.prefix = Slice(bb, 0, i)]

NoEndQuoteErr(qq) ==
    [NoErr EXCEPT !.kind = "UnterminatedQuote", !.op = "quote", !.q = qq]

WrapMatchingQuote(e, bb, st) ==
    [e EXCEPT !.wrapped = TRUE, !.wstart = st, !.wprefix = Slice(bb, 0, st)]

----------------------------------------------------------------------------
(* The closures of ShellSplitEx.  Each takes the cursor and returns the    *)
(* cursor it leaves and its error.                                         *)

RECURSIVE skipSplitCh(_, _, _)
skipSplitCh(bb, p, i) ==
    IF i < Len(bb)
    THEN LET d == DecodeRune(Slice(bb, i, Len(bb))) IN
         IF d.r = RuneError
         THEN [idx |-> i, err |-> InvalidEncodingErr("skip", bb, i)]
         ELSE IF ~SplitFn(p, d.r) THEN [idx |-> i, err |-> NoErr]
         ELSE skipSplitCh(bb, p, i + d.size)
    ELSE [idx |-> i, err |-> NoErr]

\* the escape test of both scans: the previous rune is a backslash
Escaped(prev) == prev = Backslash

\* mutant: an escaped quote closes the span
RECURSIVE findEndQuoteLoop_NoEscape(_, _, _, _)
findEndQuoteLoop_NoEscape(bb, i, q, prev) ==
    IF i < Len(bb)
    THEN LET d == DecodeRune(Slice(bb, i, Len(bb))) IN
         IF d.r = RuneError
         THEN [idx |-> i, err |-> InvalidEncodingErr("quote", bb, i)]
         ELSE IF d.r = q
              THEN [idx |-> i + d.size, err |-> NoErr]
         ELSE findEndQuoteLoop_NoEscape(bb, i + d.size, q, d.r)
    ELSE [idx |-> i, err |-> NoEndQuoteErr(q)]

\* mutant: the quote sub-scan does not test the decoded rune for RuneError
RECURSIVE findEndQuoteLoop_NoCheck(_, _, _, _)
findEndQuoteLoop_NoCheck(bb, i, q, prev) ==
    IF i < Len(bb)
    THEN LET d == DecodeRune(Slice(bb, i, Len(bb))) IN
         IF d.r = q /\ ~Escaped(prev)
         THEN [idx |-> i + d.size, err |-> NoErr]
         ELSE findEndQuoteLoop_NoCheck(bb, i + d.size, q, d.r)
    ELSE [idx |-> i, err |-> NoEndQuoteErr(q)]

RECURSIVE findEndQuoteLoop(_, _, _, _)
findEndQuoteLoop(bb, i, q, prev) ==
    IF i < Len(bb)
    THEN LET d == DecodeRune(Slice(bb, i, Len(bb))) IN
         IF d.r = RuneError
         THEN [idx |-> i, err |-> InvalidEncodingErr("quote", bb, i)]
         ELSE IF d.r = q /\ ~Escaped(prev)
              THEN [idx |-> i + d.size, err |-> NoErr]
         ELSE findEndQuoteLoop(bb, i + d.size, q, d.r)
    ELSE [idx |-> i, err |-> NoEndQuoteErr(q)]

findEndQuote(bb, i, q) == findEndQuoteLoop(bb, i, q, RuneError)

RECURSIVE findSplitChLoop(_, _, _, _)
findSplitChLoop(bb, p, i, prev) ==
    IF i < Len(bb)
    THEN LET d == DecodeRune(Slice(bb, i, Len(bb))) IN
         IF d.r = RuneError
         THEN [idx |-> i, err |-> InvalidEncodingErr("find", bb, i)]
         ELSE IF SplitFn(p, d.r) THEN [idx |-> i, err |-> NoErr]
         ELSE LET j == i + d.size IN
              IF IsQuote(d.r) /\ ~Escaped(prev)
              THEN LET e == findEndQuote(bb, j, d.r) IN
                   IF e.err # NoErr
                   THEN [idx |-> e.idx, err |-> WrapMatchingQuote(e.err, bb, j)]
                   ELSE findSplitChLoop(bb, p, e.idx, d.r)
              ELSE findSplitChLoop(bb, p, j, d.r)
    ELSE [idx |-> i, err |-> NoErr]

findSplitCh(bb, p, i) == findSplitChLoop(bb, p, i, RuneError)

\* the test that decides whether the surrounding quotes are removed
Surrounded(bb, st, i) ==
    bb[st + 1] = bb[i] /\ (bb[st + 1] = DoubleQuote \/ bb[st + 1] = SingleQuote)

\* mutant: the unquoted field loses its last byte
FieldOf_OffByOne(bb, st, i) ==
    IF Surrounded(bb, st, i) THEN Slice(bb, st + 1, i - 1) ELSE Slice(bb, st, i - 1)

\* the string appended for the scanned span [st, i)
FieldOf(bb, st, i) ==
    IF Surrounded(bb, st, i) THEN Slice(bb, st + 1, i - 1) ELSE Slice(bb, st, i)

\* lines 99-109: with fd what findSplitCh returned for the field at st
AfterFind(bb, acc, st, fd) ==
    IF fd.err # NoErr
    THEN [idx |-> fd.idx, assigned |-> TRUE, start |-> st, ss |-> acc,
          err |-> fd.err]
    ELSE [idx |-> fd.idx, assigned |-> TRUE, start |-> st, err |-> NoErr,
          ss |-> IF st < fd.idx THEN Append(acc, FieldOf(bb, st, fd.idx))
                 ELSE acc]

\* lines 95-109: with sk what skipSplitCh returned; `assigned` tells whether
\* `start = idx` of line 98 was reached
AfterSkip(bb, p, i, acc, sk) ==
    IF sk.err # NoErr
    THEN [idx |-> sk.idx, assigned |-> FALSE, start |-> 0, ss |-> acc,
          err |-> sk.err]
    ELSE AfterFind(bb, acc, sk.idx, findSplitCh(bb, p, sk.idx))

\* one iteration of the main loop: skip, scan, append
LoopBody(bb, p, i, acc) == AfterSkip(bb, p, i, acc, skipSplitCh(bb, p, i))

\* the values ShellSplitEx returns: (nil, err), (nil, nil) or (ss, nil)
ErrResult(e) == [nil |-> TRUE, fields |-> <<>>, err |-> e]
OkResult(acc) ==
    IF Len(acc) = 0 THEN [nil |-> TRUE, fields |-> <<>>, err |-> NoErr]
    ELSE [nil |-> FALSE, fields |-> acc, err |-> NoErr]
NoResult == [nil |-> TRUE, fields |-> <<>>, err |-> NoErr]

RECURSIVE ShellSplitExLoop(_, _, _, _)
\* with it the outcome of one iteration: return its error, or go on
ShellSplitExNext(bb, p, it) ==
    IF it.err # NoErr THEN ErrResult(it.err)
    ELSE ShellSplitExLoop(bb, p, it.idx, it.ss)

ShellSplitExLoop(bb, p, i, acc) ==
    IF i < Len(bb) THEN ShellSplitExNext(bb, p, LoopBody(bb, p, i, acc))
    ELSE OkResult(acc)

ShellSplitEx(s, p) == ShellSplitExLoop(s, p, 0, <<>>)

ShellSplit(s) == ShellSplitEx(s, "IsSpace")

----------------------------------------------------------------------------
(* Results of ParseBootConfig *)

\* errors of ParseBootConfig: kind is "nil" | "MissingSeparator" |
\* "ValueParseError" | "ScanError"; line is the %q argument, cause the
\* wrapped error
NoCfgErr == [kind |-> "nil", line |-> <<>>, cause |-> NoErr]
MissingSeparatorErr(ln) ==
    [kind |-> "MissingSeparator", line |-> ln, cause |-> NoErr]
ValueParseErr(ln, e) == [kind |-> "ValueParseError", line |-> ln, cause |-> e]
ScanErr == [kind |-> "ScanError", line |-> <<>>, cause |-> NoErr]

NoCfgResult == [nil |-> TRUE, entries |-> <<>>, err |-> NoCfgErr]
CfgErrResult(e) == [nil |-> TRUE, entries |-> <<>>, err |-> e]
CfgOkResult(acc) == [nil |-> FALSE, entries |-> acc, err |-> NoCfgErr]

----------------------------------------------------------------------------
(* Inputs *)

Alphabet == {32, Comma, DoubleQuote, SingleQuote, Backslash, 97, 239, 191}

Strings(alpha, n) == UNION {[1 .. k -> alpha] : k \in 0 .. n}

\* test me "here and there" ok
Sample1 == <<116, 101, 115, 116, 32, 109, 101, 32, 34, 104, 101, 114, 101, 32,
             97, 110, 100, 32, 116, 104, 101, 114, 101, 34, 32, 111, 107>>
\*  "test\x20me", "here", "ok"
Sample2 == <<32, 34, 116, 101, 115, 116, 92, 120, 50, 48, 109, 101, 34, 44, 32,
             34, 104, 101, 114, 101, 34, 44, 32, 34, 111, 107, 34>>
\* CabCmdBranches = "test me","here, \"quoted\", \'too\', there" "ok"
Sample3 == <<67, 97, 98, 67, 109, 100, 66, 114, 97, 110, 99, 104, 101, 115, 32,
             61, 32, 34, 116, 101, 115, 116, 32, 109, 101, 34, 44, 34, 104, 101,
             114, 101, 44, 32, 92, 34, 113, 117, 111, 116, 101, 100, 92, 34, 44,
             32, 92, 39, 116, 111, 111, 92, 39, 44, 32, 116, 104, 101, 114, 101,
             34, 32, 34, 111, 107, 34>>
\* say "hello
Sample4 == <<115, 97, 121, 32, 34, 104, 101, 108, 108, 111>>
\* "here, \"quoted\", \'too\', there"
Sample5 == <<34, 104, 101, 114, 101, 44, 32, 92, 34, 113, 117, 111, 116, 101,
             100, 92, 34, 44, 32, 92, 39, 116, 111, 111, 92, 39, 44, 32, 116,
             104, 101, 114, 101, 34>>
\* a, U+FFFD correctly encoded, space, a
Sample6 == <<97, 239, 191, 189, 32, 97>>
\* "a b" followed by U+00A0 (a two-byte space) and a
Sample7 == <<34, 97, 32, 98, 34, 194, 160, 97>>

Samples == {Sample1, Sample2, Sample3, Sample4, Sample5, Sample6, Sample7}

Inputs == Strings(Alphabet, MaxLen) \cup Samples

----------------------------------------------------------------------------
(* ShellSplitEx as a state machine: one step per iteration of the main     *)
(* loop, then the return.                                                  *)

TokIdle ==
    /\ b = <<>> /\ splitFn = "IsSpace" /\ idx = 0 /\ start = 0 /\ ss = <<>>
    /\ pc = "idle" /\ res = NoResult

RtIdle == round = 1 /\ first = [input |-> <<>>, result |-> NoResult]

CfgIdle ==
    /\ input = <<>> /\ off = 0 /\ line = <<>> /\ cmds = <<>>
    /\ cpc = "idle" /\ cres = NoCfgResult

TokInit ==
    /\ b \in Inputs
    /\ splitFn \in Preds
    /\ idx = 0 /\ start = 0 /\ ss = <<>>
    /\ pc = "loop" /\ res = NoResult

Init == TokInit /\ RtIdle /\ CfgIdle

\* lines 94-110: one pass of `for idx < l`
Iterate ==
    /\ pc = "loop"
    /\ idx < Len(b)
    /\ LET it == LoopBody(b, splitFn, idx, ss) IN
       /\ idx' = it.idx
       /\ start' = IF it.assigned THEN it.start ELSE start
       /\ ss' = it.ss
       /\ IF it.err # NoErr
          THEN pc' = "done" /\ res' = ErrResult(it.err)
          ELSE pc' = "loop" /\ res' = res
    /\ UNCHANGED <<b, splitFn>>

\* lines 111-114
Return ==
    /\ pc = "loop"
    /\ ~(idx < Len(b))
    /\ pc' = "done"
    /\ res' = OkResult(ss)
    /\ UNCHANGED <<b, splitFn, idx, start, ss>>

Next ==
    \/ Iterate /\ UNCHANGED rtVars /\ UNCHANGED cfgVars
    \/ Return /\ UNCHANGED rtVars /\ UNCHANGED cfgVars

Spec == Init /\ [][Next]_vars

----------------------------------------------------------------------------
(* The round trip of the fields: a second call on the fields of the first  *)
(* joined with single spaces, with the same predicate.                     *)

\* strings.Join(elems, sep)
RECURSIVE Join(_, _)
Join(elems, sep) ==
    IF Len(elems) = 0 THEN <<>>
    ELSE IF Len(elems) = 1 THEN elems[1]
    ELSE elems[1] \o sep \o Join(Tail(elems), sep)

Rejoin ==
    /\ pc = "done"
    /\ round = 1
    /\ res.err = NoErr
    /\ first' = [input |-> b, result |-> res]
    /\ round' = 2
    /\ b' = Join(res.fields, <<32>>)
    /\ idx' = 0 /\ start' = 0 /\ ss' = <<>>
    /\ pc' = "loop"
    /\ res' = NoResult
    /\ UNCHANGED splitFn

NextRT ==
    \/ Iterate /\ UNCHANGED rtVars /\ UNCHANGED cfgVars
    \/ Return /\ UNCHANGED rtVars /\ UNCHANGED cfgVars
    \/ Rejoin /\ UNCHANGED cfgVars

SpecRT == Init /\ [][NextRT]_vars

----------------------------------------------------------------------------
(* ParseBootConfig *)

\* the offset of the first byte c of s, -1 when there is none
IndexByte(s, c) ==
    LET at == {i \in 0 .. Len(s) - 1 : s[i + 1] = c} IN
    IF at = {} THEN -1 ELSE CHOOSE i \in at : \A j \in at : i <= j

\* bufio: dropCR
DropCR(data) ==
    IF Len(data) > 0 /\ data[Len(data)] = CarriageReturn
    THEN Slice(data, 0, Len(data) - 1)
    ELSE data

\* scanner.Scan() with bufio.ScanLines on the input from offset o on:
\* ok and the token and the new offset, or the end of input, or
\* bufio.ErrTooLong when no line end lies within the scanner's buffer
ScannerScan(in, o) ==
    LET data == Slice(in, o, Len(in))
        i    == IndexByte(data, NewLine)
    IN  IF Len(data) = 0
        THEN [ok |-> FALSE, token |-> <<>>, off |-> o, err |-> FALSE]
        ELSE IF (i = -1 \/ i >= MaxScanTokenSize) /\ Len(data) >= MaxScanTokenSize
        THEN [ok |-> FALSE, token |-> <<>>, off |-> o, err |-> TRUE]
        ELSE IF i >= 0
        THEN [ok |-> TRUE, token |-> DropCR(Slice(data, 0, i)),
              off |-> o + i + 1, err |-> FALSE]
        ELSE [ok |-> TRUE, token |-> DropCR(data), off |-> Len(in), err |-> FALSE]

\* strings.SplitN(s, "=", 2)
SplitN2(s) ==
    LET i == IndexByte(s, EqualSign) IN
    IF i = -1 THEN <<s>>
    ELSE <<Slice(s, 0, i), Slice(s, i + 1, Len(s))>>

RECURSIVE TrimLeftSpace(_)
TrimLeftSpace(s) ==
    IF Len(s) = 0 THEN s
    ELSE LET d == DecodeRune(s) IN
         IF IsSpace(d.r) THEN TrimLeftSpace(Slice(s, d.size, Len(s))) ELSE s

RECURSIVE TrimRightSpace(_)
TrimRightSpace(s) ==
    IF Len(s) = 0 THEN s
    ELSE LET d == DecodeLastRune(s) IN
         IF IsSpace(d.r) THEN TrimRightSpace(Slice(s, 0, Len(s) - d.size)) ELSE s

\* mutant: only the left end is trimmed
TrimSpace_LeftOnly(s) == TrimLeftSpace(s)

\* strings.TrimSpace(s)
TrimSpace(s) == TrimRightSpace(TrimLeftSpace(s))

\* fmt.Sprintf("%s=%s", key, value)
Entry(key, value) == key \o <<EqualSign>> \o value

\* lines 134-138: with r what ShellSplitEx returned for the value half of ln
AfterSplit(ln, acc, key, r) ==
    IF r.err # NoErr
    THEN [cmds |-> acc, err |-> ValueParseErr(ln, r.err)]
    ELSE [cmds |-> Append(acc, Entry(key, Join(r.fields, <<Comma>>))),
          err |-> NoCfgErr]

\* lines 127-138: with kv what strings.SplitN returned for ln
AfterSplitN(ln, acc, kv) ==
    IF Len(kv) # 2
    THEN [cmds |-> acc, err |-> MissingSeparatorErr(ln)]
    ELSE AfterSplit(ln, acc, TrimSpace(kv[1]), ShellSplitEx(kv[2], "IsSpaceOrComma"))

\* mutant: a line without `=` is skipped
ParseLineBody_SkipBadLine(ln, acc) ==
    IF Len(SplitN2(ln)) # 2 THEN [cmds |-> acc, err |-> NoCfgErr]
    ELSE AfterSplitN(ln, acc, SplitN2(ln))

\* the body of the scanner loop for the line ln, with acc the entries so far:
\* the entries after it, and the error that ends the call, if any
ParseLineBody(ln, acc) == AfterSplitN(ln, acc, SplitN2(ln))

RECURSIVE ParseBootConfigFrom(_, _, _)
\* with st the outcome of the loop body: return its error, or go on
ParseBootConfigNext(in, o, st) ==
    IF st.err # NoCfgErr THEN CfgErrResult(st.err)
    ELSE ParseBootConfigFrom(in, o, st.cmds)

\* with sc what scanner.Scan() gave
ParseBootConfigScan(in, acc, sc) ==
    IF sc.ok THEN ParseBootConfigNext(in, sc.off, ParseLineBody(sc.token, acc))
    ELSE IF sc.err THEN CfgErrResult(ScanErr) ELSE CfgOkResult(acc)

ParseBootConfigFrom(in, o, acc) == ParseBootConfigScan(in, acc, ScannerScan(in, o))

ParseBootConfig(in) == ParseBootConfigFrom(in, 0, <<>>)

CfgAlphabet == {107, EqualSign, 32, Comma, DoubleQuote, NewLine, CarriageReturn}

\* the bootcfg constant
Bootcfg ==
    <<107, 101, 114, 110, 101, 108, 46, 67, 97, 98, 67, 109, 100, 66, 114, 97,
      110, 99, 104, 101, 115, 32, 61, 32, 34, 116, 101, 115, 116, 92, 120, 50,
      48, 109, 101, 34, 44, 32, 34, 104, 101, 114, 101, 34, 44, 32, 34, 111,
      107, 34, 10, 107, 101, 114, 110, 101, 108, 46, 67, 97, 98, 67, 109, 100,
      68, 114, 121, 82, 117, 110, 32, 61, 32, 34, 49, 34, 10, 107, 101, 114,
      110, 101, 108, 46, 67, 97, 98, 73, 80, 32, 61, 32, 34, 49, 48, 46, 49,
      48, 46, 49, 46, 50, 51, 52, 34, 10>>
\* CabCmdBranches = "test\x20me", "here", "ok"
CfgLine1 ==
    <<67, 97, 98, 67, 109, 100, 66, 114, 97, 110, 99, 104, 101, 115, 32, 61,
      32, 34, 116, 101, 115, 116, 92, 120, 50, 48, 109, 101, 34, 44, 32, 34,
      104, 101, 114, 101, 34, 44, 32, 34, 111, 107, 34>>
\* U+00A0 k U+00A0 = k CR LF k = "k
CfgLine2 ==
    <<194, 160, 107, 194, 160, 61, 107, 13, 10, 107, 61, 34, 107>>

\* one line of MaxScanTokenSize bytes, k ... k =, without a line feed
CfgLongLine == [i \in 1 .. MaxScanTokenSize |->
                   IF i = MaxScanTokenSize THEN EqualSign ELSE 107]

CfgSamples == {Bootcfg, CfgLine1, CfgLine2, CfgLongLine}

CfgInputs == Strings(CfgAlphabet, MaxCfgLen) \cup CfgSamples

InitCfg ==
    /\ TokIdle /\ RtIdle
    /\ input \in CfgInputs
    /\ off = 0 /\ line = <<>> /\ cmds = <<>>
    /\ cpc = "scan" /\ cres = NoCfgResult

\* lines 124-139: scanner.Scan() gave a line; one pass of the loop
ParseLine ==
    /\ cpc = "scan"
    /\ \E sc \in {ScannerScan(input, off)} :
       /\ sc.ok
       /\ off' = sc.off
       /\ line' = sc.token
       /\ \E st \in {ParseLineBody(sc.token, cmds)} :
          /\ cmds' = st.cmds
          /\ IF st.err # NoCfgErr
             THEN cpc' = "done" /\ cres' = CfgErrResult(st.err)
             ELSE cpc' = "scan" /\ cres' = cres
    /\ UNCHANGED input

\* lines 140-143: scanner.Scan() gave no line
CfgReturn ==
    /\ cpc = "scan"
    /\ \E sc \in {ScannerScan(input, off)} :
       /\ ~sc.ok
       /\ cres' = IF sc.err THEN CfgErrResult(ScanErr) ELSE CfgOkResult(cmds)
    /\ cpc' = "done"
    /\ UNCHANGED <<input, off, line, cmds>>

NextCfg ==
    \/ ParseLine /\ UNCHANGED tokVars /\ UNCHANGED rtVars
    \/ CfgReturn /\ UNCHANGED tokVars /\ UNCHANGED rtVars

SpecCfg == InitCfg /\ [][NextCfg]_vars

----------------------------------------------------------------------------
(* Reference notions the properties are stated with.  They are defined on  *)
(* the bytes of the input, independently of the scanner above.             *)

\* Well-formed UTF-8 (Unicode 3.9, table 3-7) from offset i on
RECURSIVE WellFormedFrom(_, _)
WellFormedFrom(bb, i) ==
    IF i >= Len(bb) THEN TRUE
    ELSE LET c0 == bb[i + 1]
             c(k) == IF i + k < Len(bb) THEN bb[i + k + 1] ELSE -1
             tail(x) == x \in 128 .. 191
         IN  \/ c0 \in 0 .. 127 /\ WellFormedFrom(bb, i + 1)
             \/ c0 \in 194 .. 223 /\ tail(c(1)) /\ WellFormedFrom(bb, i + 2)
             \/ /\ \/ c0 = 224 /\ c(1) \in 160 .. 191
                   \/ c0 \in (225 .. 236) \cup {238, 239} /\ tail(c(1))
                   \/ c0 = 237 /\ c(1) \in 128 .. 159
                /\ tail(c(2))
                /\ WellFormedFrom(bb, i + 3)
             \/ /\ \/ c0 = 240 /\ c(1) \in 144 .. 191
                   \/ c0 \in 241 .. 243 /\ tail(c(1))
                   \/ c0 = 244 /\ c(1) \in 128 .. 143
                /\ tail(c(2)) /\ tail(c(3))
                /\ WellFormedFrom(bb, i + 4)

WellFormed(bb) == WellFormedFrom(bb, 0)

\* the three bytes EF BF BD, the encoding of U+FFFD, occur in bb
HasReplacementChar(bb) ==
    \E k \in 1 .. Len(bb) - 2 :
        bb[k] = 239 /\ bb[k + 1] = 191 /\ bb[k + 2] = 189

HasQuoteByte(bb) == \E k \in 1 .. Len(bb) : bb[k] \in {34, 39}

\* the maximal runs of non-separator runes of a well-formed text
RECURSIVE RunsFrom(_, _, _, _)
RunsFrom(bb, p, i, cur) ==
    LET flush == IF cur = <<>> THEN <<>> ELSE <<cur>> IN
    IF i >= Len(bb) THEN flush
    ELSE LET d == DecodeRune(Slice(bb, i, Len(bb))) IN
         IF SplitFn(p, d.r)
         THEN flush \o RunsFrom(bb, p, i + d.size, <<>>)
         ELSE RunsFrom(bb, p, i + d.size, cur \o Slice(bb, i, i + d.size))

MaximalRuns(bb, p) == RunsFrom(bb, p, 0, <<>>)

\* the offset of the first byte q at or after offset j that is not preceded by
\* a backslash; -1 when there is none
CloseOf(bb, j, q) ==
    LET c == {k \in j .. Len(bb) - 1 : bb[k + 1] = q /\ bb[k] # 92} IN
    IF c = {} THEN -1 ELSE CHOOSE k \in c : \A m \in c : k <= m

\* the quoted spans of bb from offset i on: [open, close] are the offsets of
\* the two quote bytes, close = -1 for a span that is not closed
RECURSIVE SpansFrom(_, _)
SpansFrom(bb, i) ==
    IF i >= Len(bb) THEN {}
    ELSE IF bb[i + 1] \in {34, 39} /\ (i = 0 \/ bb[i] # 92)
         THEN LET c == CloseOf(bb, i + 1, bb[i + 1]) IN
              IF c = -1 THEN {[open |-> i, close |-> -1]}
              ELSE {[open |-> i, close |-> c]} \cup SpansFrom(bb, c + 1)
         ELSE SpansFrom(bb, i + 1)

QuoteSpans(bb) == SpansFrom(bb, 0)

\* the main loop has just scanned the non-empty span [start, idx) and appended
\* its field
JustScanned == pc = "loop" /\ start < idx

LastField == ss[Len(ss)]

----------------------------------------------------------------------------
(* Properties of ShellSplitEx, checked under Spec *)

\* C1: for a well-formed input without quote characters the call succeeds and
\* returns exactly the maximal runs of non-separator runes, in order, none of
\* them empty.
C1_MaximalRuns ==
    (pc = "done" /\ WellFormed(b) /\ ~HasQuoteByte(b)) =>
        /\ res.err = NoErr
        /\ res.fields = MaximalRuns(b, splitFn)
        /\ \A k \in 1 .. Len(res.fields) : res.fields[k] # <<>>

Fields1 == << <<116, 101, 115, 116>>, <<109, 101>>,
              <<104, 101, 114, 101, 32, 97, 110, 100, 32, 116, 104, 101, 114, 101>>,
              <<111, 107>> >>

\* C2: no boundary of a scanned field lies inside a quoted span, a field that
\* is exactly one quoted span is emitted as the content between its quotes, and
\* ShellSplit of `test me "here and there" ok` is [test, me, here and there, ok].
C2_QuotedSpanNotSplit ==
    /\ JustScanned =>
         \A sp \in QuoteSpans(b) :
            /\ ~(sp.open < idx /\ (sp.close = -1 \/ idx <= sp.close))
            /\ ~(sp.open < start /\ (sp.close = -1 \/ start <= sp.close))
            /\ (sp.open = start /\ sp.close = idx - 1) =>
                   LastField = Slice(b, start + 1, idx - 1)
    /\ (pc = "done" /\ b = Sample1 /\ splitFn = "IsSpace") =>
         /\ res = [nil |-> FALSE, fields |-> Fields1, err |-> NoErr]
         /\ ShellSplit(b) = res

C2_Witness ==
    /\ pc = "done" /\ b = Sample1 /\ splitFn = "IsSpace"
    /\ Len(res.fields) = 4
    /\ res.fields[3] = Slice(Sample1, 9, 23)

\* here, \"quoted\", \'too\', there
Field5 == <<104, 101, 114, 101, 44, 32, 92, 34, 113, 117, 111, 116, 101, 100,
            92, 34, 44, 32, 92, 39, 116, 111, 111, 92, 39, 44, 32, 116, 104,
            101, 114, 101>>

\* the rune at offset i of bb is a separator, or i is the end of bb
SeparatorOrEndAt(bb, p, i) ==
    i >= Len(bb) \/ SplitFn(p, DecodeRune(Slice(bb, i, Len(bb))).r)

\* C3: the sub-scan a field's leading quote q opens closes at the first q that
\* is not preceded by a backslash, escaped quotes do not close it, and a field
\* that ends there is emitted verbatim between the outer quotes, escapes kept.
C3_EscapedQuoteKept ==
    /\ (JustScanned /\ b[start + 1] \in {34, 39}) =>
         LET j == CloseOf(b, start + 1, b[start + 1]) IN
         /\ j # -1
         /\ idx > j
         /\ SeparatorOrEndAt(b, splitFn, j + 1) => idx = j + 1
         /\ idx = j + 1 => LastField = Slice(b, start + 1, j)
    /\ (pc = "done" /\ b = Sample5) =>
         res = [nil |-> FALSE, fields |-> <<Field5>>, err |-> NoErr]

\* a field whose closing quote follows an escaped quote of the same kind
C3_Witness ==
    /\ JustScanned
    /\ idx - start >= 4
    /\ b[start + 1] = 34 /\ b[idx] = 34
    /\ \E k \in start + 1 .. idx - 3 : b[k + 1] = 92 /\ b[k + 2] = 34
    /\ CloseOf(b, start + 1, 34) = idx - 1
    /\ LastField = Slice(b, start + 1, idx - 1)

\* the quoted span of bb that is not closed, if any
OpenSpans(bb) == {sp \in QuoteSpans(bb) : sp.close = -1}

\* C4: an unescaped opening quote without a matching closing quote makes the
\* call fail with UnterminatedQuote, without fields, and the error carries the
\* byte offset of the opening quote.
C4_UnterminatedOffset ==
    (pc = "done" /\ WellFormed(b) /\ ~HasReplacementChar(b)) =>
        \A sp \in OpenSpans(b) :
            /\ res.nil /\ res.fields = <<>>
            /\ res.err.kind = "UnterminatedQuote"
            /\ res.err.wrapped
            /\ res.err.wstart = sp.open

\* C5: an input holding a malformed byte sequence fails with InvalidEncoding
\* and returns no fields, whatever was scanned before.
C5_InvalidEncodingNoFields ==
    (pc = "done" /\ ~WellFormed(b)) =>
        /\ res.err.kind = "InvalidEncoding"
        /\ res.nil
        /\ res.fields = <<>>

\* a failed call that had already collected a field
C5_Witness ==
    /\ pc = "done" /\ ~WellFormed(b)
    /\ Len(ss) > 0
    /\ res.err.kind = "InvalidEncoding" /\ res.nil

\* C9: a well-formed input never fails with InvalidEncoding.
C9_WellFormedNeverInvalid ==
    (pc = "done" /\ WellFormed(b)) => res.err.kind # "InvalidEncoding"

\* C10: a scanned field that is not exactly one quoted span is emitted verbatim.
C10_StripOnlyEnclosed ==
    (JustScanned /\ [open |-> start, close |-> idx - 1] \notin QuoteSpans(b)) =>
        LastField = Slice(b, start, idx)

----------------------------------------------------------------------------
(* The round trip, checked under SpecRT *)

\* the runes of s, decoded front to back
RECURSIVE RunesOf(_)
RunesOf(s) ==
    IF Len(s) = 0 THEN {}
    ELSE LET d == DecodeRune(s) IN {d.r} \cup RunesOf(Slice(s, d.size, Len(s)))

\* no field holds a separator rune or a quote rune
PlainFields(fs, p) ==
    \A k \in 1 .. Len(fs) :
        \A r \in RunesOf(fs[k]) : ~SplitFn(p, r) /\ r \notin {34, 39}

RoundTripDone == round = 2 /\ pc = "done"

\* C6 as stated: when no field of a successful call holds a separator or a
\* quote, the call on the fields joined with single spaces returns the same
\* fields.
C6_RoundTrip ==
    (RoundTripDone /\ PlainFields(first.result.fields, splitFn)) =>
        res = first.result

\* C6, amended: the same, for a predicate that takes the space for a separator
\* and a first call none of whose fields is empty.
C6_RoundTripNonEmpty ==
    (/\ RoundTripDone
     /\ PlainFields(first.result.fields, splitFn)
     /\ SplitFn(splitFn, 32)
     /\ \A k \in 1 .. Len(first.result.fields) : first.result.fields[k] # <<>>) =>
        res = first.result

\* a round trip of several fields whose joined text differs from the input
C6_Witness ==
    /\ RoundTripDone
    /\ PlainFields(first.result.fields, splitFn)
    /\ SplitFn(splitFn, 32)
    /\ Len(first.result.fields) >= 2
    /\ \A k \in 1 .. Len(first.result.fields) : first.result.fields[k] # <<>>
    /\ first.input # b
    /\ res = first.result

----------------------------------------------------------------------------
(* Properties of ParseBootConfig, checked under SpecCfg *)

\* the lines of a text: the pieces that end at a line feed, and the rest when
\* it is not empty, each without one trailing carriage return
RECURSIVE RefRawLines(_)
RefRawLines(in) ==
    LET nls == {k \in 1 .. Len(in) : in[k] = 10} IN
    IF Len(in) = 0 THEN <<>>
    ELSE IF nls = {} THEN <<in>>
    ELSE LET k == CHOOSE x \in nls : \A y \in nls : x <= y IN
         <<SubSeq(in, 1, k - 1)>> \o RefRawLines(SubSeq(in, k + 1, Len(in)))

RefChop(l) ==
    IF Len(l) > 0 /\ l[Len(l)] = 13 THEN SubSeq(l, 1, Len(l) - 1) ELSE l

RefLines(in) == [k \in 1 .. Len(RefRawLines(in)) |-> RefChop(RefRawLines(in)[k])]

\* every line, its carriage return counted and its line feed not, is shorter
\* than the 64 KiB a token of the line scanner may have
LinesFit(in) ==
    \A k \in 1 .. Len(RefRawLines(in)) : Len(RefRawLines(in)[k]) < 65536

HasEq(l) == \E k \in 1 .. Len(l) : l[k] = 61
FirstEq(l) == CHOOSE k \in 1 .. Len(l) : l[k] = 61 /\ \A m \in 1 .. k - 1 : l[m] # 61
RefBeforeEq(l) == SubSeq(l, 1, FirstEq(l) - 1)
RefValue(l) == SubSeq(l, FirstEq(l) + 1, Len(l))

\* the runes of s with their offsets
RECURSIVE RuneCells(_, _)
RuneCells(s, i) ==
    IF i >= Len(s) THEN {}
    ELSE LET d == DecodeRune(Slice(s, i, Len(s))) IN
         {[off |-> i, size |-> d.size, r |-> d.r]} \cup RuneCells(s, i + d.size)

\* s without the white space at its two ends
RefTrim(s) ==
    LET ink == {c \in RuneCells(s, 0) : ~IsSpace(c.r)} IN
    IF ink = {} THEN <<>>
    ELSE LET lo == CHOOSE c \in ink : \A d \in ink : c.off <= d.off
             hi == CHOOSE c \in ink : \A d \in ink : d.off <= c.off
         IN  Slice(s, lo.off, hi.off + hi.size)

RefKey(l) == RefTrim(RefBeforeEq(l))

\* the fields of the value half of l
ValueFields(l) == ShellSplitEx(RefValue(l), "IsSpaceOrComma")

\* the line is one the parser rejects
BadLine(l) == ~HasEq(l) \/ ValueFields(l).err # NoErr

\* the entry of a line
RefEntry(l) == RefKey(l) \o <<61>> \o Join(ValueFields(l).fields, <<44>>)

\* CabCmdBranches=test\x20me,here,ok
CfgOut1 ==
    <<67, 97, 98, 67, 109, 100, 66, 114, 97, 110, 99, 104, 101, 115, 61, 116,
      101, 115, 116, 92, 120, 50, 48, 109, 101, 44, 104, 101, 114, 101, 44,
      111, 107>>

\* C7 as stated: when every line has `=` and a value half that tokenizes, the
\* call returns one entry per line, in order, each the trimmed key, `=`, and
\* the fields of the value half joined with `,`.
C7_OneEntryPerLine ==
    /\ (cpc = "done" /\ \A k \in 1 .. Len(RefLines(input)) : ~BadLine(RefLines(input)[k])) =>
         /\ cres.err = NoCfgErr
         /\ ~cres.nil
         /\ Len(cres.entries) = Len(RefLines(input))
         /\ \A k \in 1 .. Len(cres.entries) :
                cres.entries[k] = RefEntry(RefLines(input)[k])
    /\ (cpc = "done" /\ input = CfgLine1) => cres.entries = <<CfgOut1>>

\* C7, amended: the same, for an input all of whose lines are shorter than the
\* line scanner's token limit of 64 KiB.
C7_OneEntryPerShortLine ==
    /\ (/\ cpc = "done"
        /\ LinesFit(input)
        /\ \A k \in 1 .. Len(RefLines(input)) : ~BadLine(RefLines(input)[k])) =>
         /\ cres.err = NoCfgErr
         /\ ~cres.nil
         /\ Len(cres.entries) = Len(RefLines(input))
         /\ \A k \in 1 .. Len(cres.entries) :
                cres.entries[k] = RefEntry(RefLines(input)[k])
    /\ (cpc = "done" /\ input = CfgLine1) => cres.entries = <<CfgOut1>>

C7_Witness ==
    /\ cpc = "done" /\ input = Bootcfg
    /\ Len(cres.entries) = 3
    /\ cres.entries[1] = Slice(Bootcfg, 0, 7) \o CfgOut1

\* the number of the first line the parser rejects, 0 when there is none
FirstBad(ls) ==
    LET bad == {k \in 1 .. Len(ls) : BadLine(ls[k])} IN
    IF bad = {} THEN 0 ELSE CHOOSE k \in bad : \A m \in bad : k <= m

====
